---- MODULE Spec2Model ----
(***************************************************************************)
(* Two-timer PWM sound synthesis on the SAMD51 (the harmonics synth sketch *)
(* printed in README.md, lines 49-280).                                    *)
(*                                                                         *)
(* TCC1 produces the 240 kHz carrier whose duty register TCC1->CC[0] is    *)
(* the volume.  TCC2 runs at the tone frequency and raises two interrupts: *)
(* OVF (TCC2_0_Handler) and MC0 (TCC2_1_Handler).  loop() polls four       *)
(* potentiometers, filters them with a deadband, derives VOL,              *)
(* VOL_harmonic, TF and pulsefraction, and reprograms TCC2 with UpdateTF.  *)
(*                                                                         *)
(* The control loop is a sequence of steps (pc); both handlers have the    *)
(* same NVIC priority, so each runs to completion and is one step that may *)
(* be taken between any two steps of the loop once setup has enabled the   *)
(* interrupts.                                                             *)
(*                                                                         *)
(* float values are kept as exact fractions [n, d]; (int) casts are        *)
(* floors of the exact product (all operands are non-negative).  The       *)
(* sensor readings used below (0, 1, 512, 1023 on the channels that are    *)
(* multiplied) give products on which binary32 arithmetic and the exact    *)
(* fraction truncate to the same integer.                                  *)
(***************************************************************************)
EXTENDS Integers, Sequences, FiniteSets, TLC

\* ------------------------------------------------------------------ bounds

\* The for loop of loop() runs i over 0..999; the model cuts the sweep to
\* SweepLen iterations, after which loop() returns and is entered again.
SweepLen == 3
\* Overflow interrupts taken in one run of the model.
MaxOvf == 3
\* Loop iterations counted in one run of in-band readings.
MaxRun == 3
\* TC0 match interrupts taken in one run of the basic sketch.
MaxMatch == 4
\* How many tone frequencies are taken at each end of the valid domain and
\* around 440 when the initializer of TCTOPL is applied to other values
\* of TF than 440.
FreqSpan == 40

\* ------------------------------------------------------- program constants

\* const int noisefilter = 20;
noisefilter == 20
\* int count = 0; every statement that changes it is commented out.
count == 0
\* analogRead: 10-bit resolution, the divisor 1023.0 of the loop.
ADCmax == 1023
\* GCLK8: 48 MHz DFLL / 4, the 12000000L of TCTOPL and UpdateTF.
TimerHz == 12000000
\* The 16-bit width of TCC2's PER/CC registers: (uint16_t) is mod 2^16.
TwoTo16 == 65536
\* The LFO threshold scale: (int)( 600000 * (float)(readPulseFraction / 1023.0) ).
LFOscale == 600000
\* TCC1->PER.reg = 499: the TOP of the carrier, the documented maximum of VOL.
CarrierTop == 499
\* The documented valid tone frequencies: "anything from 183 to 6 million".
Fmin == 183
Fmax == 6000000

\* The ESP32 sketch (ttPWMvDACwave.ino), built with DACwave defined.
update_rate == 1000
amp_max == 255
pitch_initial == 440
pitch_max == 2000
amp_min == 5
timerSWprescaler == 2
timerSize == 80000000
timerSizeprescaler == timerSize \div timerSWprescaler
timerSU_top == timerSizeprescaler \div update_rate

VARIABLES
    pc,              \* position of the main program: setup, then the loop's steps
    i,               \* for ( int i = 0 ; i < 1000 ; i++ )
    VOL, harmonic_ratio, VOL_harmonic, TF, TCTOPL, TCTOP, pulsefraction,
    harmonic,        \* bool harmonic = true
    readHarmonicRatio, readVOL, readPulseFraction, readTF,
    readHarmonicRation, readVOLn, readPulseFractionn, readTFn,
                     \* the loop body's locals: the four analogRead results
                     \* of this iteration, -1 outside their scope
    LFO, LFOvalue, count2,
    time3,           \* micros() - time1, as the next evaluation of line 193 finds it
    TCC1_PER,        \* TCC1->PER.reg, the carrier period
    TCC1_CC0,        \* TCC1->CC[0].reg, the carrier duty
    TCC2_PER,        \* TCC2->PER.reg
    TCC2_CC0,        \* TCC2->CC[0].reg
    start,           \* history: the four filtered readings when an out-of-band
                     \* reading last arrived
    run,             \* history: loop iterations since then, up to MaxRun
    programmed,      \* history: TCTOP, the filtered pulse-fraction reading and
                     \* the compare value of the last UpdateTF with LFOvalue 1.0
    COUNT,           \* TCC2->COUNT, at the value of its last event
    matched,         \* whether the match of COUNT with CC0 has been signalled
    nmc,             \* history: compare matches since the last overflow, up to 2
    INTFLAG_OVF,     \* TCC2->INTFLAG.bit.OVF
    INTFLAG_MC0,     \* TCC2->INTFLAG.bit.MC0
    hpc,             \* who runs: "main", or a handler waiting ("ovf_wait", "mc_wait")
    SYNCBUSY_CC0,    \* TCC1->SYNCBUSY.bit.CC0
    TC0_CC0,         \* basic sketch: TC0->COUNT16.CC[0].reg
    nTC0,            \* basic sketch, history: TC0 match interrupts taken so far
    epc,             \* ESP32 sketch: position of setup and loop
    amp, pitch, timerSW_top, up, update_now,
    alarmSW,         \* ESP32 sketch: the alarm value of timerSW
    DAC1,            \* ESP32 sketch: the value last written to the DAC, -1 before
    owed,            \* ESP32 sketch, history: firings of onTimerSU whose update
                     \* pass is not completed, up to MaxOwed
    suSinceSW,       \* ESP32 sketch, history: firings of onTimerSU since the
                     \* last firing of onTimerSW
    novf,            \* history: overflow interrupts taken so far
    lastEvent        \* history: the last timer interrupt taken ("none", "ovf", "mc")

\* The four filtered readings and the four raw readings, in the order
\* A3, A4, A2, A0.
filtered == <<readHarmonicRatio, readVOL, readPulseFraction, readTF>>
sampled == <<readHarmonicRation, readVOLn, readPulseFractionn, readTFn>>
drift == <<start, run>>

timer == <<COUNT, matched, nmc>>
basic == <<TC0_CC0, nTC0>>
esp == <<epc, amp, pitch, timerSW_top, up, update_now, alarmSW, DAC1, owed,
         suSinceSW>>
irq == <<INTFLAG_OVF, INTFLAG_MC0, hpc, SYNCBUSY_CC0>>

vars == <<sampled, drift, programmed, timer, irq, basic, esp, pc, i, VOL, harmonic_ratio, VOL_harmonic, TF, TCTOPL, TCTOP, pulsefraction,
          harmonic, readHarmonicRatio, readVOL, readPulseFraction, readTF,
          LFO, LFOvalue, count2, time3, TCC1_PER, TCC1_CC0, TCC2_PER, TCC2_CC0,
          novf, lastEvent>>

loopVars == <<i, VOL, harmonic_ratio, VOL_harmonic, TF, TCTOPL, TCTOP, pulsefraction,
              readHarmonicRatio, readVOL, readPulseFraction, readTF,
              LFO, LFOvalue, count2, time3>>

\* ------------------------------------------------------------- arithmetic

\* A float as an exact fraction.
Frac(n, d) == [n |-> n, d |-> d]

FMul(a, b) == Frac(a.n * b.n, a.d * b.d)

\* (int)( k * f ) for an int k >= 0 and a float f >= 0.
Trunc(k, f) == (k * f.n) \div f.d

\* abs() of the deadband comparison.
Abs(x) == IF x < 0 THEN -x ELSE x

Min(a, b) == IF a < b THEN a ELSE b

\* (uint16_t) x
U16(x) == x % TwoTo16

\* The initializer of TCTOPL with the "- 1" left out.
InitTCTOPL_NoMinusOne(tf) == TimerHz \div (2 * tf)

\* The initializer of TCTOPL: 12000000L / (2 * TF) - 1.
InitTCTOPL(tf) == TimerHz \div (2 * tf) - 1

\* UpdateTF, line 271: 12000000L / newTF - 1, for newTF # 0.
UpdateTCTOPL(newTF) == TimerHz \div newTF - 1

\* CompareTicks rounding up by adding one to the truncated product.
CompareTicks_RoundsUp(top, pf) == Trunc(top, pf) + 1

\* (int)( TCTOP * pulsefraction ), lines 158 and 277.
CompareTicks(top, pf) == Trunc(top, pf)

\* The deadband filter following a reading inside the band half way.
Deadband_Follows(new, old) ==
    IF Abs(new - old) > noisefilter THEN new ELSE (new + old) \div 2

\* The deadband filter replacing at a distance of noisefilter already.
Deadband_Inclusive(new, old) == IF Abs(new - old) >= noisefilter THEN new ELSE old

\* The deadband filter of lines 220-223.
Deadband(new, old) == IF Abs(new - old) > noisefilter THEN new ELSE old

\* VOL = (int)((float)(readVOL/1023.0) * (499.0 - (i/2 - 1)));
LoopVolume(rv, idx) == Trunc(499 - (idx \div 2 - 1), Frac(rv, ADCmax))

\* VOL_harmonic = (int)( VOL * (float)harmonic_ratio );
HarmonicVolume(vol, ratio) == Trunc(vol, ratio)

\* LFOtime = (int)( 600000 * (float)(readPulseFraction / 1023.0) );
LFOtimeOf(rpf) == Trunc(LFOscale, Frac(rpf, ADCmax))

\* The alarm value of the tone timer for a pitch:
\* (int) timerSizeprescaler / (pitch * 2).
TopOf(p) == timerSizeprescaler \div (p * 2)

\* The globals of the ESP32 sketch as their initialisers leave them; amp is
\* (int) amp_max * 0.5, the product truncated to int.
EspGlobals ==
    /\ epc = "setup"
    /\ amp = (amp_max * 5) \div 10
    /\ pitch = pitch_initial
    /\ timerSW_top = TopOf(pitch_initial)
    /\ up = TRUE
    /\ update_now = FALSE
    /\ alarmSW = 0
    /\ DAC1 = -1
    /\ owed = 0
    /\ suSinceSW = 0

\* ------------------------------------------------------------------- Init

\* The globals as their initializers leave them; the timer registers at
\* their reset values (TCC1 is a 24-bit counter, TCC2 a 16-bit one: PER
\* resets to all ones).
Init ==
    /\ pc = "setup"
    /\ i = 0
    /\ VOL = 499
    /\ harmonic_ratio = Frac(15, 100)
    /\ VOL_harmonic = HarmonicVolume(499, Frac(15, 100))
    /\ TF = 440
    /\ TCTOPL = InitTCTOPL(440)
    /\ TCTOP = U16(InitTCTOPL(440))
    /\ pulsefraction = Frac(6, 10)
    /\ harmonic = TRUE
    /\ readHarmonicRatio = 1
    /\ readVOL = 1
    /\ readPulseFraction = 1
    /\ readTF = 1
    /\ readHarmonicRation = -1
    /\ readVOLn = -1
    /\ readPulseFractionn = -1
    /\ readTFn = -1
    /\ start = <<1, 1, 1, 1>>
    /\ run = 0
    /\ programmed = [top |-> -1, rpf |-> -1, cc |-> -1]
    /\ COUNT = 0
    /\ matched = FALSE
    /\ nmc = 0
    /\ INTFLAG_OVF = FALSE
    /\ INTFLAG_MC0 = FALSE
    /\ hpc = "main"
    /\ SYNCBUSY_CC0 = FALSE
    /\ LFO = TRUE
    /\ LFOvalue = Frac(1, 1)
    /\ count2 = 0
    /\ time3 = 0
    /\ TCC1_PER = 2^24 - 1
    /\ TCC1_CC0 = 0
    /\ TCC2_PER = TwoTo16 - 1
    /\ TCC2_CC0 = 0
    /\ novf = 0
    /\ TC0_CC0 = 0
    /\ nTC0 = 0
    /\ EspGlobals
    /\ lastEvent = "none"

\* ------------------------------------------------------------------ setup

\* setup().  Lines 125-129: the statement after "while
\* (TCC1->SYNCBUSY.bit.WAVE)" has no semicolon before it, so the write
\* TCC1->PER.reg = 499 is the body of that loop and happens only when the
\* WAVE synchronization is still busy at the test.  Then TCC1's duty
\* (line 133), TCC2's period and compare value (157-158), the two
\* interrupts enabled (163-180), time1 = micros() (186).
Setup ==
    /\ pc = "setup"
    /\ \E waveBusy \in BOOLEAN :
          TCC1_PER' = IF waveBusy THEN CarrierTop ELSE TCC1_PER
    /\ TCC1_CC0' = VOL
    /\ TCC2_PER' = TCTOP
    /\ TCC2_CC0' = CompareTicks(TCTOP, pulsefraction)
    /\ time3' = 0
    /\ pc' = "lfo"
    /\ UNCHANGED <<basic, esp, sampled, drift, programmed, timer, irq, i, VOL, harmonic_ratio, VOL_harmonic, TF, TCTOPL, TCTOP,
                   pulsefraction, harmonic, readHarmonicRatio, readVOL,
                   readPulseFraction, readTF, LFO, LFOvalue, count2, novf, lastEvent>>

\* ------------------------------------------------------------- the loop

\* The test of line 195 taken strictly.
Expired_Strict(elapsed, threshold) == elapsed > threshold

\* Line 195: if (time3 >= LFOtime)
Expired(elapsed, threshold) == elapsed >= threshold

\* Lines 192-213: the LFO.  time3 = micros() - time1; when it has reached
\* LFOtime the flag toggles, time1 = time2 and count2 steps through 0..4.
LoopLFO ==
    /\ pc = "lfo"
    /\ hpc = "main"
    /\ LET expired == Expired(time3, LFOtimeOf(readPulseFraction))
           newLFO == IF expired THEN ~LFO ELSE LFO
       IN  /\ LFO' = newLFO
           /\ time3' = IF expired THEN 0 ELSE time3
           /\ count2' = IF expired
                          THEN (IF count2 + 1 = 5 THEN 0 ELSE count2 + 1)
                          ELSE count2
           /\ LFOvalue' = IF newLFO THEN Frac(1, 1) ELSE Frac(1, 2)
    /\ pc' = "read"
    /\ UNCHANGED <<basic, esp, sampled, drift, programmed, timer, irq, TCC1_PER, i, VOL, harmonic_ratio, VOL_harmonic, TF, TCTOPL,
                   TCTOP,
                   pulsefraction, harmonic, readHarmonicRatio, readVOL,
                   readPulseFraction, readTF, TCC1_CC0, TCC2_PER, TCC2_CC0,
                   novf, lastEvent>>

\* Lines 216-223: the four analogRead calls (A3, A4, A2, A0) and the
\* deadband filter of each channel.  The readings are drawn from the sets
\* given.  run counts the iterations whose four readings all lie within
\* noisefilter of the filtered readings recorded in start.
LoopRead(A3, A4, A2, A0) ==
    /\ pc = "read"
    /\ hpc = "main"
    /\ readHarmonicRation' \in A3
    /\ readVOLn' \in A4
    /\ readPulseFractionn' \in A2
    /\ readTFn' \in A0
    /\ readHarmonicRatio' = Deadband(readHarmonicRation', readHarmonicRatio)
    /\ readVOL' = Deadband(readVOLn', readVOL)
    /\ readPulseFraction' = Deadband(readPulseFractionn', readPulseFraction)
    /\ readTF' = Deadband(readTFn', readTF)
    /\ IF \A ch \in 1..4 : Abs(sampled'[ch] - start[ch]) <= noisefilter
       THEN /\ run' = Min(run + 1, MaxRun)
            /\ start' = start
       ELSE /\ run' = 0
            /\ start' = filtered'
    /\ pc' = "ratio"
    /\ UNCHANGED <<basic, esp, programmed, timer, irq, TCC1_PER, i, VOL, harmonic_ratio, VOL_harmonic, TF, TCTOPL,
                   TCTOP,
                   pulsefraction, harmonic, LFO, LFOvalue, count2, time3,
                   TCC1_CC0, TCC2_PER, TCC2_CC0, novf, lastEvent>>

\* Line 225: harmonic_ratio = (readHarmonicRatio/1023.0) * (count2 / 4.0);
LoopRatio ==
    /\ pc = "ratio"
    /\ hpc = "main"
    /\ harmonic_ratio' = FMul(Frac(readHarmonicRatio, ADCmax), Frac(count2, 4))
    /\ pc' = "vol"
    /\ UNCHANGED <<basic, esp, sampled, drift, programmed, timer, irq, TCC1_PER, i, VOL, VOL_harmonic, TF, TCTOPL, TCTOP, pulsefraction,
                   harmonic,
                   readHarmonicRatio, readVOL, readPulseFraction, readTF,
                   LFO, LFOvalue, count2, time3, TCC1_CC0, TCC2_PER, TCC2_CC0,
                   novf, lastEvent>>

\* Line 226 with a write of the new volume to the carrier duty added.
LoopVOL_SetsDuty ==
    /\ pc = "vol"
    /\ hpc = "main"
    /\ VOL' = LoopVolume(readVOL, i)
    /\ TCC1_CC0' = LoopVolume(readVOL, i)
    /\ pc' = "volh"
    /\ UNCHANGED <<basic, esp, sampled, drift, programmed, timer, irq, TCC1_PER, i, harmonic_ratio, VOL_harmonic, TF, TCTOPL, TCTOP,
                   pulsefraction, harmonic, readHarmonicRatio, readVOL, readPulseFraction, readTF,
                   LFO, LFOvalue, count2, time3, TCC2_PER, TCC2_CC0,
                   novf, lastEvent>>

\* Line 226: VOL = (int)((float)(readVOL/1023.0) * (499.0 - (i/2 - 1)));
LoopVOL ==
    /\ pc = "vol"
    /\ hpc = "main"
    /\ VOL' = LoopVolume(readVOL, i)
    /\ pc' = "volh"
    /\ UNCHANGED <<basic, esp, sampled, drift, programmed, timer, irq, TCC1_PER, i, harmonic_ratio, VOL_harmonic, TF, TCTOPL, TCTOP,
                   pulsefraction, harmonic, readHarmonicRatio, readVOL, readPulseFraction, readTF,
                   LFO, LFOvalue, count2, time3, TCC1_CC0, TCC2_PER, TCC2_CC0,
                   novf, lastEvent>>

\* Line 227: VOL_harmonic = (int)( VOL * (float)harmonic_ratio );
LoopVOLharmonic ==
    /\ pc = "volh"
    /\ hpc = "main"
    /\ VOL_harmonic' = HarmonicVolume(VOL, harmonic_ratio)
    /\ pc' = "tf"
    /\ UNCHANGED <<basic, esp, sampled, drift, programmed, timer, irq, TCC1_PER, i, VOL, harmonic_ratio, TF, TCTOPL, TCTOP,
                   pulsefraction, harmonic, readHarmonicRatio, readVOL, readPulseFraction, readTF,
                   LFO, LFOvalue, count2, time3, TCC1_CC0, TCC2_PER, TCC2_CC0,
                   novf, lastEvent>>

\* Line 228: TF = readTF + (120 * count) + (i * 6);
LoopTF ==
    /\ pc = "tf"
    /\ hpc = "main"
    /\ TF' = readTF + (120 * count) + (i * 6)
    /\ pc' = "pf"
    /\ UNCHANGED <<basic, esp, sampled, drift, programmed, timer, irq, TCC1_PER, i, VOL, harmonic_ratio, VOL_harmonic, TCTOPL, TCTOP, pulsefraction,
                   harmonic, readHarmonicRatio, readVOL, readPulseFraction, readTF,
                   LFO, LFOvalue, count2, time3, TCC1_CC0, TCC2_PER, TCC2_CC0,
                   novf, lastEvent>>

\* The pulse fraction without the LFO scale.
PulseFraction_Unscaled(rpf, scale) == Frac(rpf, ADCmax)

\* (readPulseFraction/1023.0) * LFOvalue
PulseFraction(rpf, scale) == FMul(Frac(rpf, ADCmax), scale)

\* Line 229: pulsefraction = (readPulseFraction/1023.0) * LFOvalue;
LoopPF ==
    /\ pc = "pf"
    /\ hpc = "main"
    /\ pulsefraction' = PulseFraction(readPulseFraction, LFOvalue)
    /\ pc' = "utf_calc"
    /\ UNCHANGED <<basic, esp, sampled, drift, programmed, timer, irq, TCC1_PER, i, VOL, harmonic_ratio, VOL_harmonic, TF, TCTOPL,
                   TCTOP,
                   harmonic, readHarmonicRatio, readVOL, readPulseFraction, readTF,
                   LFO, LFOvalue, count2, time3, TCC1_CC0, TCC2_PER, TCC2_CC0,
                   novf, lastEvent>>

\* Lines 230, 270-272: the call UpdateTF(TF), whose parameter is uint16_t,
\* and the computation of TCTOPL and TCTOP.  12000000L / 0 is undefined:
\* the Cortex-M4 either yields quotient 0 (DIV_0_TRP clear) or takes a
\* UsageFault, after which nothing of the program runs.
UpdateTF_Calc ==
    /\ pc = "utf_calc"
    /\ hpc = "main"
    /\ LET newTF == U16(TF)
       IN  \/ /\ newTF # 0
              /\ TCTOPL' = UpdateTCTOPL(newTF)
              /\ TCTOP' = U16(UpdateTCTOPL(newTF))
              /\ pc' = "utf_per"
           \/ /\ newTF = 0
              /\ TCTOPL' = 0 - 1
              /\ TCTOP' = U16(0 - 1)
              /\ pc' = "utf_per"
           \/ /\ newTF = 0
              /\ UNCHANGED <<TCTOPL, TCTOP>>
              /\ pc' = "fault"
    /\ UNCHANGED <<basic, esp, sampled, drift, programmed, timer, irq, TCC1_PER, i, VOL, harmonic_ratio, VOL_harmonic, TF, pulsefraction,
                   harmonic, readHarmonicRatio, readVOL, readPulseFraction, readTF,
                   LFO, LFOvalue, count2, time3, TCC1_CC0, TCC2_PER, TCC2_CC0,
                   novf, lastEvent>>

\* Line 275: TCC2->PER.reg = TCTOP;
UpdateTF_PER ==
    /\ pc = "utf_per"
    /\ hpc = "main"
    /\ TCC2_PER' = TCTOP
    /\ pc' = "utf_cc"
    /\ UNCHANGED <<basic, esp, sampled, drift, programmed, timer, irq, TCC1_PER, loopVars, harmonic, TCC1_CC0, TCC2_CC0, novf, lastEvent>>

\* UpdateTF writing the compare value to TCC1 instead of TCC2.
UpdateTF_CC0_ToCarrier ==
    /\ pc = "utf_cc"
    /\ hpc = "main"
    /\ TCC1_CC0' = CompareTicks(TCTOP, pulsefraction)
    /\ pc' = "end"
    /\ UNCHANGED <<basic, esp, sampled, drift, programmed, timer, irq, TCC1_PER, loopVars, harmonic, TCC2_CC0, TCC2_PER, novf, lastEvent>>

\* Lines 277-279: TCC2->CC[0].reg = (int)( TCTOP * pulsefraction ); and the
\* wait for the synchronization of both writes.
UpdateTF_CC0 ==
    /\ pc = "utf_cc"
    /\ hpc = "main"
    /\ TCC2_CC0' = CompareTicks(TCTOP, pulsefraction)
    /\ programmed' = IF LFOvalue = Frac(1, 1)
                       THEN [top |-> TCTOP, rpf |-> readPulseFraction,
                             cc |-> TCC2_CC0']
                       ELSE programmed
    /\ pc' = "end"
    /\ UNCHANGED <<basic, esp, sampled, drift, timer, irq, TCC1_PER, loopVars, harmonic, TCC1_CC0, TCC2_PER, novf, lastEvent>>

\* Lines 231-240 and the for statement: delay(2), the Serial prints, i++.
\* The iteration has taken d microseconds, d from Micros; time3 saturates
\* above LFOscale, the largest value LFOtime takes.
LoopEnd(Micros) ==
    /\ pc = "end"
    /\ hpc = "main"
    /\ \E d \in Micros : time3' = Min(time3 + d, LFOscale + 1)
    /\ i' = IF i + 1 < SweepLen THEN i + 1 ELSE 0
    /\ readHarmonicRation' = -1
    /\ readVOLn' = -1
    /\ readPulseFractionn' = -1
    /\ readTFn' = -1
    /\ pc' = "lfo"
    /\ UNCHANGED <<basic, esp, drift, programmed, timer, irq, TCC1_PER, VOL, harmonic_ratio, VOL_harmonic, TF, TCTOPL, TCTOP,
                   pulsefraction, harmonic, readHarmonicRatio, readVOL, readPulseFraction, readTF,
                   LFO, LFOvalue, count2, TCC1_CC0, TCC2_PER, TCC2_CC0,
                   novf, lastEvent>>

\* ------------------------------------------------------- timer interrupts

\* Interrupts are enabled by setup and no longer served after a fault.
IrqEnabled == pc \notin {"setup", "fault"}

\* OverflowDuty with the two branches exchanged.
OverflowDuty_Swapped(h, vol, volh) == IF h THEN vol ELSE volh

\* Lines 248-257: the value the OVF handler writes to TCC1->CC[0].
OverflowDuty(h, vol, volh) == IF h THEN volh ELSE vol

\* OverflowPhase with the toggle of the else branch left out.
OverflowPhase_ElseKeeps(h) == IF h THEN ~h ELSE h

\* Lines 251 and 256: harmonic = !harmonic, in both branches.
OverflowPhase(h) == ~h

\* Lines 244-259: the OVF interrupt.  An overflow event is the taking of
\* this interrupt: INTFLAG.OVF is set (that is what raised it) and is
\* cleared; the duty is written from VOL_harmonic or VOL as the flag
\* harmonic says, then the flag toggles.
TCC2_0_Handler ==
    /\ IrqEnabled
    /\ novf < MaxOvf
    /\ TCC1_CC0' = OverflowDuty(harmonic, VOL, VOL_harmonic)
    /\ harmonic' = OverflowPhase(harmonic)
    /\ novf' = novf + 1
    /\ lastEvent' = "ovf"
    /\ UNCHANGED <<basic, esp, sampled, drift, programmed, timer, irq, TCC1_PER, pc, loopVars, TCC2_PER, TCC2_CC0>>

\* The MC0 interrupt writing 0 to VOL instead of the duty.
TCC2_1_Handler_ZeroesVOL ==
    /\ IrqEnabled
    /\ VOL' = 0
    /\ lastEvent' = "mc"
    /\ UNCHANGED <<basic, esp, sampled, drift, programmed, timer, irq, TCC1_PER, pc, i, harmonic_ratio, VOL_harmonic, TF,
                   TCTOPL, TCTOP, pulsefraction, filtered, LFO, LFOvalue, count2,
                   time3, harmonic, TCC1_CC0, TCC2_PER, TCC2_CC0, novf>>

\* Lines 261-268: the MC0 interrupt: the duty is written 0.
TCC2_1_Handler ==
    /\ IrqEnabled
    /\ TCC1_CC0' = 0
    /\ lastEvent' = "mc"
    /\ UNCHANGED <<basic, esp, sampled, drift, programmed, timer, irq, TCC1_PER, pc, loopVars, harmonic, TCC2_PER, TCC2_CC0, novf>>

\* ---------------------------------------- the timer and its two handlers
\* in steps
\*
\* TCC2 as setup configures and enables it (lines 154-180): it counts up
\* from 0 to PER; "MC0 is triggered on a CC0 match, OVF when the counter
\* hits top".  PER and CC[0] are written directly (lines 275 and 277), so
\* the counter compares with what they hold at the moment.  COUNT is kept at
\* the value of the last event: between two events the counter passes the
\* values in between.

\* Where the counter wraps: at PER, or at the end of its 16 bits when PER
\* has been written below COUNT.
WrapAt == IF COUNT <= TCC2_PER THEN TCC2_PER ELSE TwoTo16 - 1

\* The counter meets CC0 before it wraps.
MatchAhead ==
    /\ TCC2_CC0 <= WrapAt
    /\ \/ TCC2_CC0 > COUNT
       \/ TCC2_CC0 = COUNT /\ ~matched

\* The counter reaches CC0: MC0 is raised.
TCC2_Match ==
    /\ pc # "setup"
    /\ MatchAhead
    /\ COUNT' = TCC2_CC0
    /\ matched' = TRUE
    /\ nmc' = Min(nmc + 1, 2)
    /\ INTFLAG_MC0' = TRUE
    /\ UNCHANGED <<basic, esp, sampled, drift, programmed, INTFLAG_OVF, hpc, SYNCBUSY_CC0, pc, loopVars,
                   harmonic, TCC1_PER, TCC1_CC0, TCC2_PER, TCC2_CC0, novf, lastEvent>>

\* The counter hits top and starts again at 0: OVF is raised.
TCC2_Overflow ==
    /\ pc # "setup"
    /\ ~MatchAhead
    /\ COUNT' = 0
    /\ matched' = FALSE
    /\ nmc' = 0
    /\ INTFLAG_OVF' = TRUE
    /\ UNCHANGED <<basic, esp, sampled, drift, programmed, INTFLAG_MC0, hpc, SYNCBUSY_CC0, pc, loopVars,
                   harmonic, TCC1_PER, TCC1_CC0, TCC2_PER, TCC2_CC0, novf, lastEvent>>

\* Lines 245-250 and 254-255: the OVF interrupt is taken, the flag is
\* cleared and the duty is written; the write sets SYNCBUSY.CC0 of TCC1.
TCC2_0_Handler_Write ==
    /\ IrqEnabled
    /\ hpc = "main"
    /\ INTFLAG_OVF
    /\ novf < MaxOvf
    /\ INTFLAG_OVF' = FALSE
    /\ TCC1_CC0' = OverflowDuty(harmonic, VOL, VOL_harmonic)
    /\ SYNCBUSY_CC0' = TRUE
    /\ hpc' = "ovf_wait"
    /\ UNCHANGED <<basic, esp, sampled, drift, programmed, timer, INTFLAG_MC0, pc, loopVars, harmonic,
                   TCC1_PER, TCC2_PER, TCC2_CC0, novf, lastEvent>>

\* Lines 251-252 and 256-257: while (TCC1->SYNCBUSY.bit.CC0); then the
\* phase flag toggles and the handler returns.
TCC2_0_Handler_Wait ==
    /\ hpc = "ovf_wait"
    /\ ~SYNCBUSY_CC0
    /\ harmonic' = OverflowPhase(harmonic)
    /\ novf' = novf + 1
    /\ lastEvent' = "ovf"
    /\ hpc' = "main"
    /\ UNCHANGED <<basic, esp, sampled, drift, programmed, timer, INTFLAG_OVF, INTFLAG_MC0, SYNCBUSY_CC0,
                   pc, loopVars, TCC1_PER, TCC1_CC0, TCC2_PER, TCC2_CC0>>

\* Lines 262-265: the MC0 interrupt is taken, the flag is cleared and the
\* duty is written 0.
TCC2_1_Handler_Write ==
    /\ IrqEnabled
    /\ hpc = "main"
    /\ INTFLAG_MC0
    /\ INTFLAG_MC0' = FALSE
    /\ TCC1_CC0' = 0
    /\ SYNCBUSY_CC0' = TRUE
    /\ hpc' = "mc_wait"
    /\ UNCHANGED <<basic, esp, sampled, drift, programmed, timer, INTFLAG_OVF, pc, loopVars, harmonic,
                   TCC1_PER, TCC2_PER, TCC2_CC0, novf, lastEvent>>

\* Line 266: while (TCC1->SYNCBUSY.bit.CC0); then the handler returns.
TCC2_1_Handler_Wait ==
    /\ hpc = "mc_wait"
    /\ ~SYNCBUSY_CC0
    /\ lastEvent' = "mc"
    /\ hpc' = "main"
    /\ UNCHANGED <<basic, esp, sampled, drift, programmed, timer, INTFLAG_OVF, INTFLAG_MC0, SYNCBUSY_CC0,
                   pc, loopVars, harmonic, TCC1_PER, TCC1_CC0, TCC2_PER, TCC2_CC0,
                   novf>>

\* TCC1 has synchronized the write of CC[0]: the hardware clears the flag.
TCC1_Sync ==
    /\ SYNCBUSY_CC0
    /\ SYNCBUSY_CC0' = FALSE
    /\ UNCHANGED <<basic, esp, sampled, drift, programmed, timer, INTFLAG_OVF, INTFLAG_MC0, hpc, pc,
                   loopVars, harmonic, TCC1_PER, TCC1_CC0, TCC2_PER, TCC2_CC0,
                   novf, lastEvent>>

\* --------------------------------------------------------- specifications

\* The main program with the readings and iteration times given.
Program(A3, A4, A2, A0, Micros) ==
    \/ Setup
    \/ LoopLFO
    \/ LoopRead(A3, A4, A2, A0)
    \/ LoopRatio
    \/ LoopVOL
    \/ LoopVOLharmonic
    \/ LoopTF
    \/ LoopPF
    \/ UpdateTF_Calc
    \/ UpdateTF_PER
    \/ UpdateTF_CC0
    \/ LoopEnd(Micros)

\* The synth with its two interrupts; the harmonic-ratio and volume
\* potentiometers move, the pulse-fraction potentiometer rests at the low
\* end and the pitch potentiometer at 440.
Next ==
    \/ Program({0, ADCmax}, {0, ADCmax}, {0}, {440}, {LFOscale})
    \/ TCC2_0_Handler
    \/ TCC2_1_Handler

Spec == Init /\ [][Next]_vars

\* The control loop alone, the pitch and pulse-fraction potentiometers
\* moving: the conversion of tone frequency and pulse fraction to timer
\* ticks.
NextTone ==
    Program({0}, {0}, {0, 512, ADCmax}, {0, 183, 440}, {300000, LFOscale})

SpecTone == Init /\ [][NextTone]_vars

\* The loop with potentiometers that move by 20 and by 21 counts: the
\* harmonic-ratio, volume and pulse-fraction channels about their first
\* value 1, the pitch channel about 440.
NextDeadband == Program({21, 22}, {21, 22}, {21, 22}, {440, 460, 461}, {LFOscale})

SpecDeadband == Init /\ [][NextDeadband]_vars

\* The loop with iterations of 150 ms, so that the LFO keeps its value for
\* several iterations and the sweep of i returns to a pitch within them;
\* the pulse-fraction potentiometer moves between the middle and the high
\* end.
NextLFO == Program({0}, {0}, {512, ADCmax}, {440}, {150000})

SpecLFO == Init /\ [][NextLFO]_vars

\* The synth with the timer counting and the two handlers taken in steps;
\* the pulse-fraction and volume potentiometers rest at the high end (the
\* pulse fraction is 1 or, with the LFO, 0.5) and the pitch potentiometer
\* at 440.
NextTimer ==
    \/ Program({0}, {ADCmax}, {ADCmax}, {440}, {LFOscale})
    \/ TCC2_Match
    \/ TCC2_Overflow
    \/ TCC2_0_Handler_Write
    \/ TCC2_0_Handler_Wait
    \/ TCC2_1_Handler_Write
    \/ TCC2_1_Handler_Wait
    \/ TCC1_Sync

SpecTimer == Init /\ [][NextTimer]_vars

\* The initializers of TF, TCTOPL and TCTOP (lines 55-69) applied to the tone
\* frequencies of the documented domain: its low end, its high end and
\* the neighbourhood of 440.  setup then writes TCTOP to TCC2.
ToneFrequencies ==
    (Fmin .. Fmin + FreqSpan) \cup (440 - FreqSpan .. 440 + FreqSpan)
        \cup (Fmax - FreqSpan .. Fmax)

InitTone ==
    /\ pc = "setup"
    /\ i = 0
    /\ VOL = 499
    /\ harmonic_ratio = Frac(15, 100)
    /\ VOL_harmonic = HarmonicVolume(499, Frac(15, 100))
    /\ TF \in ToneFrequencies
    /\ TCTOPL = InitTCTOPL(TF)
    /\ TCTOP = U16(InitTCTOPL(TF))
    /\ pulsefraction = Frac(6, 10)
    /\ harmonic = TRUE
    /\ readHarmonicRatio = 1
    /\ readVOL = 1
    /\ readPulseFraction = 1
    /\ readTF = 1
    /\ readHarmonicRation = -1
    /\ readVOLn = -1
    /\ readPulseFractionn = -1
    /\ readTFn = -1
    /\ start = <<1, 1, 1, 1>>
    /\ run = 0
    /\ programmed = [top |-> -1, rpf |-> -1, cc |-> -1]
    /\ COUNT = 0
    /\ matched = FALSE
    /\ nmc = 0
    /\ INTFLAG_OVF = FALSE
    /\ INTFLAG_MC0 = FALSE
    /\ hpc = "main"
    /\ SYNCBUSY_CC0 = FALSE
    /\ LFO = TRUE
    /\ LFOvalue = Frac(1, 1)
    /\ count2 = 0
    /\ time3 = 0
    /\ TCC1_PER = 2^24 - 1
    /\ TCC1_CC0 = 0
    /\ TCC2_PER = TwoTo16 - 1
    /\ TCC2_CC0 = 0
    /\ novf = 0
    /\ TC0_CC0 = 0
    /\ nTC0 = 0
    /\ EspGlobals
    /\ lastEvent = "none"

SpecInitTone == InitTone /\ [][Setup]_vars

\* ------------------------------------------------------ the basic sketch
\*
\* sketch_SAMD51_PWM_HelloWorld_twotimer.ino: the globals VOL, TF, TCTOPL
\* and TCTOP, the carrier TCC1 and the tone timer TC0; loop() is empty.

\* The variables of the harmonics synth that the basic sketch does not have.
synthOnly == <<sampled, drift, programmed, timer, irq, i, harmonic_ratio,
               VOL_harmonic, pulsefraction, harmonic, filtered, LFO, LFOvalue,
               count2, time3, TCC2_PER, TCC2_CC0, novf, lastEvent>>

\* The globals of lines 25-43 with VOL at any value of the range its
\* comment gives, "between 0 and 499"; the registers at their reset values.
InitBasic ==
    /\ pc = "setup"
    /\ VOL \in 0 .. CarrierTop
    /\ TF = 440
    /\ TCTOPL = InitTCTOPL(440)
    /\ TCTOP = U16(InitTCTOPL(440))
    /\ TCC1_PER = 2^24 - 1
    /\ TCC1_CC0 = 0
    /\ TC0_CC0 = 0
    /\ nTC0 = 0
    /\ EspGlobals
    /\ i = 0
    /\ harmonic_ratio = Frac(15, 100)
    /\ VOL_harmonic = 0
    /\ pulsefraction = Frac(6, 10)
    /\ harmonic = TRUE
    /\ readHarmonicRatio = 1
    /\ readVOL = 1
    /\ readPulseFraction = 1
    /\ readTF = 1
    /\ readHarmonicRation = -1
    /\ readVOLn = -1
    /\ readPulseFractionn = -1
    /\ readTFn = -1
    /\ start = <<1, 1, 1, 1>>
    /\ run = 0
    /\ programmed = [top |-> -1, rpf |-> -1, cc |-> -1]
    /\ COUNT = 0
    /\ matched = FALSE
    /\ nmc = 0
    /\ INTFLAG_OVF = FALSE
    /\ INTFLAG_MC0 = FALSE
    /\ hpc = "main"
    /\ SYNCBUSY_CC0 = FALSE
    /\ LFO = TRUE
    /\ LFOvalue = Frac(1, 1)
    /\ count2 = 0
    /\ time3 = 0
    /\ TCC2_PER = TwoTo16 - 1
    /\ TCC2_CC0 = 0
    /\ novf = 0
    /\ lastEvent = "none"

\* Lines 45-117, setup of the basic sketch: TCC1->PER.reg = 499 is the body
\* of while (TCC1->SYNCBUSY.bit.WAVE) (line 72 ends without a semicolon),
\* line 79 writes VOL to the duty and line 104 TCTOP to TC0; the MC0
\* interrupt of TC0 is enabled and loop() does nothing.
SetupBasic ==
    /\ pc = "setup"
    /\ \E waveBusy \in BOOLEAN :
          TCC1_PER' = IF waveBusy THEN CarrierTop ELSE TCC1_PER
    /\ TCC1_CC0' = VOL
    /\ TC0_CC0' = TCTOP
    /\ pc' = "idle"
    /\ UNCHANGED <<esp, synthOnly, VOL, TF, TCTOPL, TCTOP, nTC0>>

\* The test of line 127 with its branches exchanged.
FlipDuty_Swapped(cc, vol) == IF cc = 0 THEN 0 ELSE vol

\* Lines 127-134: if ( TCC1->CC[0].reg == 0 ) the duty becomes VOL, else 0.
FlipDuty(cc, vol) == IF cc = 0 THEN vol ELSE 0

\* Lines 122-137: the MC0 interrupt of TC0: the flag is cleared and the
\* duty flips.
TC0_Handler ==
    /\ pc = "idle"
    /\ nTC0 < MaxMatch
    /\ TCC1_CC0' = FlipDuty(TCC1_CC0, VOL)
    /\ nTC0' = nTC0 + 1
    /\ UNCHANGED <<esp, synthOnly, pc, VOL, TF, TCTOPL, TCTOP, TCC1_PER, TC0_CC0>>

NextBasic ==
    \/ SetupBasic
    \/ TC0_Handler

SpecBasic == InitBasic /\ [][NextBasic]_vars

\* ------------------------------------------------------- the ESP32 sketch

\* ttPWMvDACwave.ino: the tone timer timerSW calls onTimerSW at each alarm,
\* the update timer timerSU calls onTimerSU update_rate times a second, and
\* loop polls update_now.  The two handlers run inside the same critical
\* section, so each is one step; loop is cut where it touches a variable
\* a handler also touches (update_now, amp).

\* Every variable of the two SAMD51 programs.
samd == <<synthOnly, basic, pc, VOL, TF, TCTOPL, TCTOP, TCC1_PER, TCC1_CC0>>

\* History bound: firings of onTimerSU not yet followed by a completed pass.
MaxOwed == 2

\* The most firings of onTimerSU between two alarms of the tone timer: the
\* tone alarm is at most TopOf(pitch_initial) ticks away, an update tick
\* comes every timerSU_top ticks of the same clock.
TicksPerAlarm == (TopOf(pitch_initial) \div timerSU_top) + 1

InitESP ==
    /\ pc = "setup"
    /\ i = 0
    /\ VOL = 0
    /\ harmonic_ratio = Frac(0, 1)
    /\ VOL_harmonic = 0
    /\ TF = 440
    /\ TCTOPL = InitTCTOPL(440)
    /\ TCTOP = U16(InitTCTOPL(440))
    /\ pulsefraction = Frac(1, 2)
    /\ harmonic = TRUE
    /\ readHarmonicRatio = 0
    /\ readVOL = 0
    /\ readPulseFraction = 0
    /\ readTF = 0
    /\ readHarmonicRation = -1
    /\ readVOLn = -1
    /\ readPulseFractionn = -1
    /\ readTFn = -1
    /\ LFO = TRUE
    /\ LFOvalue = Frac(1, 1)
    /\ count2 = 0
    /\ time3 = 0
    /\ TCC1_PER = 2^24 - 1
    /\ TCC1_CC0 = 0
    /\ TCC2_PER = 2^24 - 1
    /\ TCC2_CC0 = 0
    /\ start = [k \in 1 .. 4 |-> 0]
    /\ run = 0
    /\ programmed = [per |-> 0, cc |-> 0]
    /\ COUNT = 0
    /\ matched = FALSE
    /\ nmc = 0
    /\ INTFLAG_OVF = FALSE
    /\ INTFLAG_MC0 = FALSE
    /\ hpc = "main"
    /\ SYNCBUSY_CC0 = FALSE
    /\ novf = 0
    /\ lastEvent = "none"
    /\ TC0_CC0 = 0
    /\ nTC0 = 0
    /\ EspGlobals

\* setup() up to timerAlarmEnable(timerSU): both timers are started with
\* their alarm values and their interrupts are enabled.
SetupESP ==
    /\ epc = "setup"
    /\ alarmSW' = timerSW_top
    /\ epc' = "setup_amp"
    /\ UNCHANGED <<samd, amp, pitch, timerSW_top, up, update_now, DAC1, owed,
                   suSinceSW>>

\* The last statement of setup(): amp = amp_max.
SetupAmp ==
    /\ epc = "setup_amp"
    /\ amp' = amp_max
    /\ epc' = "loop"
    /\ UNCHANGED <<samd, pitch, timerSW_top, up, update_now, alarmSW, DAC1,
                   owed, suSinceSW>>

NextPitch_NoWrap(p) == p + 1
\* if ( pitch < 2000 ) pitch += 1; else pitch = pitch_initial;
NextPitch(p) == IF p < pitch_max THEN p + 1 ELSE pitch_initial

NextAmp_NoWrap(a) == a - 1
\* if ( amp < 5 ) amp = amp_max; else amp -= 1;
NextAmp(a) == IF a < amp_min THEN amp_max ELSE a - 1

\* loop(), from the test of update_now to the return of update_pitch(pitch):
\* the pitch step, the new timerSW_top and timerAlarmWrite.
LoopPitch ==
    /\ epc = "loop"
    /\ update_now
    /\ pitch' = NextPitch(pitch)
    /\ timerSW_top' = TopOf(pitch')
    /\ alarmSW' = timerSW_top'
    /\ epc' = "amp"
    /\ UNCHANGED <<samd, amp, up, update_now, DAC1, owed, suSinceSW>>

\* loop(): the amp step.
LoopAmp ==
    /\ epc = "amp"
    /\ amp' = NextAmp(amp)
    /\ epc' = "clear"
    /\ UNCHANGED <<samd, pitch, timerSW_top, up, update_now, alarmSW, DAC1,
                   owed, suSinceSW>>

\* loop(): update_now = false ends the pass.
LoopClear ==
    /\ epc = "clear"
    /\ update_now' = FALSE
    /\ owed' = IF owed > 0 THEN owed - 1 ELSE 0
    /\ epc' = "loop"
    /\ UNCHANGED <<samd, amp, pitch, timerSW_top, up, alarmSW, DAC1,
                   suSinceSW>>

SquareWave_Swapped(u, a) == IF u THEN 0 ELSE a
\* if (up) dacWrite(DAC1, amp); else dacWrite(DAC1, 0);
SquareWave(u, a) == IF u THEN a ELSE 0

\* onTimerSW: an alarm of the tone timer.
onTimerSW ==
    /\ epc # "setup"
    /\ DAC1' = SquareWave(up, amp)
    /\ up' = ~up
    /\ suSinceSW' = 0
    /\ UNCHANGED <<samd, epc, amp, pitch, timerSW_top, update_now, alarmSW,
                   owed>>

\* onTimerSU: an alarm of the update timer.
onTimerSU ==
    /\ epc # "setup"
    /\ owed < MaxOwed
    /\ suSinceSW < TicksPerAlarm
    /\ update_now' = TRUE
    /\ owed' = owed + 1
    /\ suSinceSW' = suSinceSW + 1
    /\ UNCHANGED <<samd, epc, amp, pitch, timerSW_top, up, alarmSW, DAC1>>

NextESP ==
    \/ SetupESP
    \/ SetupAmp
    \/ LoopPitch
    \/ LoopAmp
    \/ LoopClear
    \/ onTimerSW
    \/ onTimerSU

SpecESP == InitESP /\ [][NextESP]_vars

\* ------------------------------------------------------------ properties

\* round( k * f ) for k >= 0 and a fraction f >= 0, halves rounded up.
Round(k, f) == (2 * k * f.n + f.d) \div (2 * f.d)

\* C1: the flag harmonic toggles exactly once per overflow interrupt and
\* nowhere else: after N overflow interrupts it has its initial value
\* (TRUE) when N is even and the other value when N is odd, whatever the
\* loop and the compare handler have done in between.
C1_PhaseParity == harmonic = (novf % 2 = 0)

C1_Witness ==
    /\ novf = 2
    /\ harmonic
    /\ lastEvent = "mc"
    /\ pc = "volh"
    /\ i > 0

\* C2: every overflow interrupt writes the carrier duty with VOL_harmonic
\* when the flag harmonic is set (the machine enters the harmonic phase)
\* and with VOL when it is clear, and toggles the flag; counted from the
\* initial state the first overflow writes VOL_harmonic and the plateaus
\* of consecutive overflows alternate.
C2_OverflowPlateau ==
    [][novf' = novf + 1 =>
          /\ TCC1_CC0' = (IF harmonic THEN VOL_harmonic ELSE VOL)
          /\ TCC1_CC0' = (IF novf % 2 = 0 THEN VOL_harmonic ELSE VOL)
          /\ harmonic' = ~harmonic]_vars

C2_Witness ==
    /\ novf = 2
    /\ lastEvent = "ovf"
    /\ TCC1_CC0 = VOL
    /\ VOL # VOL_harmonic
    /\ VOL_harmonic > 0

\* C3: after a compare interrupt the carrier duty is 0 and stays 0 until
\* the next overflow interrupt: while the compare interrupt is the last
\* timer interrupt taken, no step of the loop or of UpdateTF has made the
\* duty nonzero.
C3_CompareHoldsZero == lastEvent = "mc" => TCC1_CC0 = 0

C3_Witness ==
    /\ lastEvent = "mc"
    /\ novf >= 1
    /\ pc = "end"
    /\ VOL > 0
    /\ VOL_harmonic > 0
    /\ TCC1_CC0 = 0

\* C4: TCC2's period and compare value change as an atomic pair: a step
\* that changes PER leaves in CC0 the compare value computed for that PER,
\* so that no new PER is ever paired with a stale CC0.  (Stated for the
\* frequencies of the documented domain whose tick count fits the cast.)
C4_AtomicPair ==
    [][(TCC2_PER' # TCC2_PER /\ TF \in Fmin..Fmax /\ TCTOP = TCTOPL) =>
          TCC2_CC0' = CompareTicks(TCC2_PER', pulsefraction')]_vars

\* C5: the frequency passed to UpdateTF, and used by its division and its
\* register writes, lies in the valid domain Fmin..Fmax.
C5_FrequencyInDomain ==
    pc \in {"utf_calc", "utf_per", "utf_cc"} => TF \in Fmin..Fmax

\* C6: 0 <= VOL <= 499, and every value written to the carrier duty
\* register is within 0..499.
C6_VolumeInRange ==
    /\ VOL \in 0..CarrierTop
    /\ TCC1_CC0 \in 0..CarrierTop

\* C7: at every point where an overflow handler can run, the two values
\* it reads satisfy 0 <= VOL_harmonic <= VOL.
C7_HarmonicBelowVolume ==
    IrqEnabled => (0 <= VOL_harmonic /\ VOL_harmonic <= VOL)

\* C8: the pair that setup and UpdateTF write to TCC2 satisfies
\* 0 <= CC0 <= PER (the point between the two writes of UpdateTF is not a
\* pair either has written).
C8_CompareWithinPeriod ==
    pc # "utf_cc" => (0 <= TCC2_CC0 /\ TCC2_CC0 <= TCC2_PER)

C8_Witness ==
    /\ pc = "end"
    /\ pulsefraction.n = pulsefraction.d
    /\ TCC2_PER > 0
    /\ TCC2_CC0 = TCC2_PER

\* C9: for a tone frequency of the documented domain the period tick
\* count is non-negative and fits 16 bits: the cast (uint16_t)TCTOPL
\* changes nothing.  TCTOPL is the count of TF from the initializer on and
\* again once UpdateTF has computed it.
C9_PeriodFitsRegister ==
    (pc \notin {"pf", "utf_calc"} /\ TF \in Fmin..Fmax) =>
        (TCTOPL >= 0 /\ TCTOP = TCTOPL)

\* C10: the period and compare value in TCC2 are the reference conversion
\* of TF and pulsefraction, R / (2 x TF) - 1 and round(period x fraction),
\* after setup and after every UpdateTF call.  (Stated for the frequencies
\* of the documented domain whose tick count fits the cast.)
C10_ReferenceConversion ==
    (/\ pc \in {"lfo", "read", "ratio", "vol", "volh", "tf", "end"}
     /\ TF \in Fmin..Fmax
     /\ TCTOP = TCTOPL) =>
        /\ TCC2_PER = TimerHz \div (2 * TF) - 1
        /\ TCC2_CC0 = Round(TimerHz \div (2 * TF) - 1, pulsefraction)

\* C11: round trip of the conversion of the initializer: with
\* p = 12000000 / (2 x f) - 1 in integer arithmetic, the frequency
\* recovered from p by 12000000 / (2 x (p + 1)) is f within one tick:
\* 12000000 / (2 x (p + 2)) < f <= 12000000 / (2 x (p + 1)), for p as
\* computed (TCTOPL), as cast (TCTOP) and as setup writes it to TCC2.
C11_RoundTrip ==
    LET RoundTrip(f, p) ==
            /\ TimerHz \div (2 * (p + 2)) < f
            /\ f <= TimerHz \div (2 * (p + 1))
    IN  /\ RoundTrip(TF, TCTOPL)
        /\ RoundTrip(TF, TCTOP)
        /\ pc # "setup" => RoundTrip(TF, TCC2_PER)

C11_Witness ==
    /\ pc = "lfo"
    /\ TF = Fmin
    /\ TCC2_PER = 32785

\* C12: on each of the four channels the filtered reading is replaced by
\* the new reading when, and only when, they differ by more than
\* noisefilter (20): at a distance of exactly 20 it stays, at 21 it is
\* replaced.  No other step of the program changes a filtered reading.
C12_Deadband ==
    [][IF pc = "read"
       THEN \A ch \in 1..4 :
               LET d == Abs(sampled'[ch] - filtered[ch])
               IN  /\ filtered'[ch] # filtered[ch] => d > 20
                   /\ d > 20 => filtered'[ch] = sampled'[ch]
                   /\ d = 20 => filtered'[ch] = filtered[ch]
                   /\ d = 21 => filtered'[ch] = sampled'[ch]
       ELSE filtered' = filtered]_vars

\* The pitch reading 460 arrives at distance 20 of the filtered 440 and the
\* volume reading 22 at distance 21 of the filtered 1 (run = 0: one channel
\* left its band, and the other three did not).
C12_Witness ==
    /\ pc = "ratio"
    /\ run = 0
    /\ readTFn = 460 /\ readTF = 440
    /\ readVOLn = 22 /\ readVOL = 22
    /\ readHarmonicRation = 21 /\ readHarmonicRatio = 1
    /\ readPulseFractionn = 21 /\ readPulseFraction = 1

\* C13: a sequence of readings that all lie within the deadband of the
\* last accepted values leaves the four filtered readings at those values,
\* however long the sequence is and wherever in the band the readings go.
C13_DeadbandIdempotent == run > 0 => filtered = start

\* The third iteration in a row of readings in the band, the pitch reading
\* at the edge of the band of 440 and the volume reading at the edge of
\* the band of 1.
C13_Witness ==
    /\ pc = "ratio"
    /\ run = MaxRun
    /\ readTFn = 460 /\ readTF = 440
    /\ readVOLn = 21 /\ readVOL = 1

\* C14: while harmonic_ratio is 0, VOL_harmonic is 0 and an overflow
\* interrupt writes VOL or 0 to the carrier duty, never a second nonzero
\* level.
C14_HarmonicOff ==
    [][(harmonic_ratio.n = 0 /\ novf' # novf)
          => (VOL_harmonic = 0 /\ TCC1_CC0' \in {0, VOL})]_vars

\* C15: single writer.  After setup no step of the loop or of UpdateTF
\* changes the carrier duty TCC1->CC[0] or the phase flag harmonic; only
\* the two interrupt handlers do.  (A step of the main program is a step
\* that moves pc.)
C15_SingleWriter ==
    [][(pc # "setup" /\ pc' # pc)
          => (TCC1_CC0' = TCC1_CC0 /\ harmonic' = harmonic)]_vars

\* The loop has computed a new VOL while the duty still holds what the
\* second overflow interrupt wrote.
C15_Witness ==
    /\ pc = "volh"
    /\ novf = 2
    /\ lastEvent = "ovf"
    /\ TCC1_CC0 = 499
    /\ VOL = 500
    /\ harmonic

\* C16: the interrupt handlers leave the state the loop owns unchanged:
\* VOL, VOL_harmonic, harmonic_ratio, pulsefraction, TF, TCTOP and the
\* PER and CC0 registers of TCC2; of it they only read VOL and
\* VOL_harmonic, one of which, or 0, is what they write to the duty.
\* (A step of a handler is a step that leaves pc in place.)
C16_HandlersFrame ==
    [][pc' = pc
          => /\ UNCHANGED <<VOL, VOL_harmonic, harmonic_ratio, pulsefraction,
                            TF, TCTOP, TCC2_PER, TCC2_CC0>>
             /\ TCC1_CC0' \in {0, VOL, VOL_harmonic}]_vars

\* The compare interrupt has run in an iteration whose VOL, 500, is no
\* longer the initial one.
C16_Witness ==
    /\ pc = "volh"
    /\ lastEvent = "mc"
    /\ TCC1_CC0 = 0
    /\ VOL = 500
    /\ novf > 0

\* C17: within every period of the modulation timer the compare event
\* fires at most once (and then before the overflow that ends the period),
\* also when UpdateTF rewrites PER and CC0 while the counter runs and for
\* the pulse fractions 0 and 1.  nmc counts the compare events since the
\* last overflow.
C17_CompareOncePerPeriod == nmc <= 1

\* C18: no handler blocks: a handler is never at a wait whose end depends
\* on a hardware flag; it finishes after its register writes.
C18_HandlersNeverWait == ~(hpc \in {"ovf_wait", "mc_wait"} /\ SYNCBUSY_CC0)

\* C19 as stated: the LFO flag toggles in a loop iteration exactly when the
\* time elapsed since its last toggle exceeds the threshold derived from
\* the filtered pulse-fraction reading, and not otherwise.
C19_TogglesWhenExceeds ==
    [][IF pc = "lfo"
       THEN (LFO' # LFO) <=> (time3 > (LFOscale * readPulseFraction) \div ADCmax)
       ELSE LFO' = LFO]_vars

\* C19 as amended: the LFO flag toggles in a loop iteration exactly when the
\* time elapsed since its last toggle (since the end of setup, before the
\* first) has reached or exceeds the threshold derived from the filtered
\* pulse-fraction reading; the scale derived from the flag is 0.5 or 1.0
\* and the compare value UpdateTF programs in the same iteration is
\* computed from the pulse fraction multiplied by it.
C19_TogglesWhenReached ==
    [][/\ IF pc = "lfo"
          THEN /\ (LFO' # LFO)
                     <=> (time3 >= (LFOscale * readPulseFraction) \div ADCmax)
               /\ LFOvalue' = IF LFO' THEN Frac(1, 1) ELSE Frac(1, 2)
          ELSE LFO' = LFO /\ LFOvalue' = LFOvalue
       /\ pc' = "end"
             => TCC2_CC0' = (TCTOP * readPulseFraction * LFOvalue.n)
                               \div (ADCmax * LFOvalue.d)]_vars

\* The flag has toggled to false against the threshold 600000 of the
\* reading 1023, and UpdateTF has programmed half the period.
C19_Witness ==
    /\ pc = "end"
    /\ ~LFO
    /\ LFOvalue = Frac(1, 2)
    /\ readPulseFraction = ADCmax
    /\ time3 = 0
    /\ TCC2_CC0 = TCTOP \div 2

\* C20 as stated: for the same TCTOP and the same filtered pulse-fraction
\* reading, the compare value programmed with the LFO scale 0.5 is half
\* the compare value programmed with the scale 1.0.
C20_HalfCompare ==
    (/\ pc = "end"
     /\ LFOvalue = Frac(1, 2)
     /\ programmed.top = TCTOP
     /\ programmed.rpf = readPulseFraction)
        => 2 * TCC2_CC0 = programmed.cc

\* C20 as amended: it is half of it to within one tick of rounding: twice
\* the compare value of scale 0.5 differs from the compare value of scale
\* 1.0 by at most 1.
C20_HalfCompareWithinTick ==
    (/\ pc = "end"
     /\ LFOvalue = Frac(1, 2)
     /\ programmed.top = TCTOP
     /\ programmed.rpf = readPulseFraction)
        => Abs(2 * TCC2_CC0 - programmed.cc) <= 1

\* Scale 0.5 after scale 1.0 with the same TCTOP and reading, the compare
\* value at scale 1.0 being odd.
C20_Witness ==
    /\ pc = "end"
    /\ LFOvalue = Frac(1, 2)
    /\ programmed.top = TCTOP
    /\ programmed.rpf = readPulseFraction
    /\ programmed.cc % 2 = 1

\* C22: after setup has returned, the carrier period register TCC1->PER
\* holds 499, whatever SYNCBUSY.bit.WAVE read when setup tested it.
C22_CarrierPeriod == pc # "setup" => TCC1_PER = CarrierTop

\* C21: in the basic sketch each TC0 match flips the carrier duty between
\* 0 and VOL: from the VOL that setup writes, VOL nonzero, the duty is 0
\* after an odd number of matches and VOL after an even number.
C21_DutyFlips ==
    (pc = "idle" /\ VOL # 0)
        => TCC1_CC0 = IF nTC0 % 2 = 1 THEN 0 ELSE VOL

\* Three matches taken and the duty at 0, then a fourth and the duty back
\* at VOL = 250: two full tone periods.
C21_Witness ==
    /\ pc = "idle"
    /\ VOL = 250
    /\ nTC0 = MaxMatch
    /\ TCC1_CC0 = 250


\* C23: in the ESP32 sketch a step changes `up` exactly when it writes the
\* output; that step writes amp as it is at that moment when `up` is true
\* and 0 when it is false, and flips `up`; no step of setup or loop changes
\* `up`; nothing is written while `up` is false before the first write, so
\* the first value written is amp.
C23_Alternates ==
    [][/\ (up' # up) => (DAC1' = IF up THEN amp ELSE 0)
       /\ (up' = up) => (DAC1' = DAC1)
       /\ (epc' # epc \/ amp' # amp \/ update_now' # update_now) => (up' = up)
       /\ (DAC1 = -1) => up]_vars

\* C23 witness: after an update pass has lowered amp, an alarm taken with
\* `up` true has written the lowered amp.
C23_Witness ==
    /\ ~up
    /\ amp = amp_max - 1
    /\ DAC1 = amp

\* C24: in the ESP32 sketch, once setup has started the timers, amp is in
\* 0 .. amp_max, pitch is in pitch_initial .. 2000, the value on the DAC (if
\* one was written) is in 0 .. amp_max, and timerSW_top and the alarm value
\* written from it are positive.
C24_Ranges ==
    (epc # "setup") =>
        /\ amp \in 0 .. amp_max
        /\ pitch \in pitch_initial .. pitch_max
        /\ DAC1 \in -1 .. amp_max
        /\ timerSW_top > 0
        /\ alarmSW = TopOf(pitch)
        /\ alarmSW > 0

\* C24 witness: the update pass in which pitch falls back from 2000 to
\* pitch_initial and amp returns from below 5 to amp_max, with the lowest
\* amp still on the DAC.
C24_Witness ==
    /\ epc = "clear"
    /\ pitch = pitch_initial
    /\ amp = amp_max
    /\ DAC1 = amp_min - 1

\* C25: in the ESP32 sketch no update tick is lost: whenever loop is
\* between passes and update_now is clear, every firing of onTimerSU so far
\* has had its own completed update pass.
C25_NoTickLost ==
    (epc = "loop" /\ ~update_now) => (owed = 0)

====
